---- MODULE Spec2Model ----
(***************************************************************************)
(* A model of ZhiLight's setup.py: the recursive requirements reader       *)
(* (get_requirements), the derivation of the cmake argument lists and the  *)
(* two-phase cmake invocation (CMakeBuild.build_extension), and the way    *)
(* the inherited build_ext driver runs build_extension over ext_modules.   *)
(*                                                                         *)
(* Python strings are sequences of one-character strings, so that strip,   *)
(* split, startswith, int() and the os.path functions are computed the way *)
(* the library computes them.                                              *)
(***************************************************************************)
EXTENDS Integers, Sequences, FiniteSets, TLC

VARIABLES
    \* ---- get_requirements ----
    files,        \* the manifests on disk: file name -> content, or Missing
    stack,        \* the frames of _read_requirements, innermost last
    status,       \* "init", "running", "returned" or the exception raised
    result,       \* what get_requirements returned
    \* ---- CMakeBuild ----
    env,          \* os.environ: variable -> value, or Unset
    debug,        \* self.debug: None, 0 or 1
    parallel,     \* self.parallel: None or an integer
    ninja,        \* whether "import ninja" succeeds
    devtoolset,   \* whether /opt/rh/devtoolset-7/root/bin/gcc exists
    pc,           \* position of setup.py: "load", "build", "done" or the exception
    ext_modules,  \* the module-level list of CMakeExtension
    phase,        \* per extension: NotStarted, Configuring, Building, Done, Failed, Error
    invocations,  \* every subprocess.check_call made so far, in order
    \* ---- output directory ----
    fullpath,     \* what get_ext_fullpath(ext.name) returned
    cwd,          \* os.getcwd()
    extdir,       \* the output directory handed to cmake
    extdir2,      \* the same normalisation applied to extdir
    ppc           \* "start", "normalised", "renormalised"

vars == <<files, stack, status, result, env, debug, parallel, ninja, devtoolset,
          pc, ext_modules, phase, invocations, fullpath, cwd, extdir, extdir2, ppc>>

reqVars == <<files, stack, status, result>>
buildVars == <<env, debug, parallel, ninja, devtoolset, pc, ext_modules, phase, invocations>>
pathVars == <<fullpath, cwd, extdir, extdir2, ppc>>

(***************************************************************************)
(* Bounds of the model.                                                    *)
(***************************************************************************)
\* Lines per manifest file.
MaxLines == 3
\* Lines per manifest file in the runs followed to their end.
MaxCycleLines == 2
\* Depth at which the interpreter raises RecursionError.  CPython's default
\* sys.getrecursionlimit() is 1000; the model scales it down.
RecursionLimit == 4
\* Characters of the path get_ext_fullpath returns, before the file name.
MaxPathLen == 4
\* Largest job count given to build_ext -j.
MaxJobs == 2

(***************************************************************************)
(* Python's str methods.                                                   *)
(***************************************************************************)
\* An optional value: <<>> when absent, <<x>> when it is x.
Some(x) == <<x>>
Val(o) == o[1]
\* Python's None
None == <<>>
\* A variable os.environ does not hold
Unset == <<>>
\* A file that does not exist
Missing == <<>>
\* No exception
NoError == "None"

\* str.startswith(prefix)
StartsWith(s, p) == Len(s) >= Len(p) /\ SubSeq(s, 1, Len(p)) = p

\* str.endswith(suffix)
EndsWith(s, p) == Len(s) >= Len(p) /\ SubSeq(s, Len(s) - Len(p) + 1, Len(s)) = p

\* The characters str.strip() and str.split() treat as whitespace.
IsSpace(c) == c \in {" ", "\n", "\t"}

RECURSIVE LStrip(_)
LStrip(s) == IF s # <<>> /\ IsSpace(Head(s)) THEN LStrip(Tail(s)) ELSE s

RECURSIVE RStrip(_)
RStrip(s) ==
    IF s # <<>> /\ IsSpace(s[Len(s)]) THEN RStrip(SubSeq(s, 1, Len(s) - 1)) ELSE s

\* str.strip(): leading and trailing whitespace removed.
Strip(s) == RStrip(LStrip(s))

\* str.split(sep) for a one-character sep: empty pieces are kept.
RECURSIVE SplitOnAcc(_, _, _)
SplitOnAcc(s, sep, cur) ==
    IF s = <<>> THEN <<cur>>
    ELSE IF Head(s) = sep THEN <<cur>> \o SplitOnAcc(Tail(s), sep, <<>>)
    ELSE SplitOnAcc(Tail(s), sep, Append(cur, Head(s)))

SplitOn(s, sep) == SplitOnAcc(s, sep, <<>>)

\* str.split() without argument: runs of whitespace separate, no empty piece.
RECURSIVE SplitWSAcc(_, _)
SplitWSAcc(s, cur) ==
    IF s = <<>> THEN (IF cur = <<>> THEN <<>> ELSE <<cur>>)
    ELSE IF IsSpace(Head(s))
         THEN (IF cur = <<>> THEN <<>> ELSE <<cur>>) \o SplitWSAcc(Tail(s), <<>>)
    ELSE SplitWSAcc(Tail(s), Append(cur, Head(s)))

SplitWS(s) == SplitWSAcc(s, <<>>)

\* "\n".join(lines), the inverse used to write a manifest's content.
RECURSIVE JoinLines(_)
JoinLines(ls) ==
    IF ls = <<>> THEN <<>>
    ELSE IF Len(ls) = 1 THEN ls[1]
    ELSE ls[1] \o <<"\n">> \o JoinLines(Tail(ls))

\* All sequences over S of length at most n.
BoundedSeq(S, n) == UNION {[1..k -> S] : k \in 0..n}

(***************************************************************************)
(* get_requirements (setup.py 121-136).                                    *)
(***************************************************************************)
FileNames == {<<"A">>, <<"B">>}

\* _read_requirements("requirements.txt"): the manifest resolution starts at.
RootManifest == <<"A">>

LinesA == { <<"n">>, <<"-", "r", " ", "B">>, <<"-", "r", "B">>, <<"-", "-", "n">>,
            <<>>, <<" ", "-", "-", "n">> }

LinesB == { <<"m">>, <<"-", "r", " ", "A">>, <<"-", "r", " ">> }

\* The contents a manifest may have: up to MaxLines lines joined by newlines.
Contents(lines, n) == { JoinLines(ls) : ls \in BoundedSeq(lines, n) }

\* A manifest is missing or has one of these contents.
FileStates(lines, n) == {Missing} \cup { Some(c) : c \in Contents(lines, n) }
StatesOfA == FileStates(LinesA, MaxLines)
StatesOfB == FileStates(LinesB, MaxLines)

\* Manifests that include each other, for the runs that are followed to their end.
CycleLinesA == { <<"n">>, <<"-", "r", " ", "B">>, <<"-", "r", " ", "A">> }
CycleLinesB == { <<"m">>, <<"-", "r", " ", "A">>, <<"-", "-", "n">> }
CycleStatesOfA == FileStates(CycleLinesA, MaxCycleLines)
CycleStatesOfB == FileStates(CycleLinesB, MaxCycleLines)

\* f.read().strip().split("\n")
ReadLines(content) == SplitOn(Strip(content), "\n")

IncludeMarker == <<"-", "r", " ">>
OptionMarker == <<"-", "-">>

\* line.startswith("-r ")
IsInclude(line) == StartsWith(line, IncludeMarker)

\* line.startswith("--")
IsOption(line) == StartsWith(line, OptionMarker)

Frame(f, content) == [file |-> f, lines |-> ReadLines(content), i |-> 1, acc |-> <<>>]

\* The call _read_requirements(filename): the interpreter's depth check, then
\* open(get_path(filename)) and the read of its lines.  Yields the new stack and status.
\* (A reader with a cycle guard: a manifest already being read contributes nothing.)
CallGuarded(st, f) ==
    IF \E k \in 1..Len(st) : st[k].file = f
    THEN [stack |-> Append(st, [file |-> f, lines |-> <<>>, i |-> 1, acc |-> <<>>]),
          status |-> "running"]
    ELSE IF Len(st) >= RecursionLimit
    THEN [stack |-> st, status |-> "RecursionError"]
    ELSE IF f \notin FileNames \/ files[f] = Missing
    THEN [stack |-> st, status |-> "FileNotFoundError"]
    ELSE [stack |-> Append(st, Frame(f, Val(files[f]))), status |-> "running"]
Call(st, f) ==
    IF Len(st) >= RecursionLimit
    THEN [stack |-> st, status |-> "RecursionError"]
    ELSE IF f \notin FileNames \/ files[f] = Missing
    THEN [stack |-> st, status |-> "FileNotFoundError"]
    ELSE [stack |-> Append(st, Frame(f, Val(files[f]))), status |-> "running"]

Top == stack[Len(stack)]
CurLine == Top.lines[Top.i]
AtLine == status = "running" /\ stack # <<>> /\ Top.i <= Len(Top.lines)

SetTop(fr) == [stack EXCEPT ![Len(stack)] = fr]

InitReq ==
    /\ \E a \in StatesOfA, b \in StatesOfB : files = (<<"A">> :> a @@ <<"B">> :> b)
    /\ stack = <<>>
    /\ status = "init"
    /\ result = <<>>

InitReqCycle ==
    /\ \E a \in CycleStatesOfA, b \in CycleStatesOfB : files = (<<"A">> :> a @@ <<"B">> :> b)
    /\ stack = <<>>
    /\ status = "init"
    /\ result = <<>>

\* get_requirements(): return _read_requirements("requirements.txt")
GetRequirements ==
    /\ status = "init"
    /\ LET c == Call(<<>>, RootManifest) IN
         /\ stack' = c.stack
         /\ status' = c.status
    /\ UNCHANGED <<files, result, buildVars, pathVars>>

\* if line.startswith("-r "): resolved_requirements += _read_requirements(line.split()[1])
Include ==
    /\ AtLine
    /\ IsInclude(CurLine)
    /\ LET toks == SplitWS(CurLine) IN
         IF Len(toks) < 2
         THEN /\ status' = "IndexError"
              /\ UNCHANGED stack
         ELSE LET c == Call(stack, toks[2]) IN
                /\ stack' = c.stack
                /\ status' = c.status
    /\ UNCHANGED <<files, result, buildVars, pathVars>>

\* elif line.startswith("--"): continue
SkipOption ==
    /\ AtLine
    /\ ~IsInclude(CurLine)
    /\ IsOption(CurLine)
    /\ stack' = SetTop([Top EXCEPT !.i = @ + 1])
    /\ UNCHANGED <<files, status, result, buildVars, pathVars>>

\* else: resolved_requirements.append(line)
KeepLine ==
    /\ AtLine
    /\ ~IsInclude(CurLine)
    /\ ~IsOption(CurLine)
    /\ stack' = SetTop([Top EXCEPT !.i = @ + 1, !.acc = Append(@, CurLine)])
    /\ UNCHANGED <<files, status, result, buildVars, pathVars>>

\* (A reader that puts an included manifest's lines ahead of the includer's.)
SpliceFront(callerAcc, returned) == returned \o callerAcc
\* resolved_requirements += <the callee's list>
Splice(callerAcc, returned) == callerAcc \o returned

\* return resolved_requirements: to the caller's "+=", or out of get_requirements.
Return ==
    /\ status = "running" /\ stack # <<>>
    /\ Top.i > Len(Top.lines)
    /\ IF Len(stack) = 1
       THEN /\ status' = "returned"
            /\ result' = Top.acc
            /\ stack' = <<>>
       ELSE LET caller == stack[Len(stack) - 1] IN
            /\ stack' = Append(SubSeq(stack, 1, Len(stack) - 2),
                               [caller EXCEPT !.i = @ + 1,
                                              !.acc = Splice(@, Top.acc)])
            /\ UNCHANGED <<status, result>>
    /\ UNCHANGED <<files, buildVars, pathVars>>


(***************************************************************************)
(* os.path (posixpath), as build_extension uses it (setup.py 23-27).       *)
(***************************************************************************)
Sep == "/"

PathChars == {"/", "a", "."}

RECURSIVE AllSep(_)
AllSep(s) == s = <<>> \/ (Head(s) = Sep /\ AllSep(Tail(s)))

RECURSIVE RStripSep(_)
RStripSep(s) ==
    IF s # <<>> /\ s[Len(s)] = Sep THEN RStripSep(SubSeq(s, 1, Len(s) - 1)) ELSE s

\* p.rfind("/") + 1
RECURSIVE RFindSep(_)
RFindSep(s) ==
    IF s = <<>> THEN 0 ELSE IF s[Len(s)] = Sep THEN Len(s) ELSE RFindSep(SubSeq(s, 1, Len(s) - 1))

\* os.path.dirname
PathDirname(p) ==
    LET head == SubSeq(p, 1, RFindSep(p)) IN
    IF head # <<>> /\ ~AllSep(head) THEN RStripSep(head) ELSE head

\* os.path.join(a, b)
PathJoin(a, b) ==
    IF StartsWith(b, <<Sep>>) THEN b
    ELSE IF a = <<>> \/ EndsWith(a, <<Sep>>) THEN a \o b
    ELSE a \o <<Sep>> \o b

Dot == <<".">>
DotDot == <<".", ".">>

\* The loop of os.path.normpath over the components, new_comps in acc.
RECURSIVE NormComps(_, _, _)
NormComps(comps, acc, initial) ==
    IF comps = <<>> THEN acc
    ELSE LET c == Head(comps) IN
         IF c = <<>> \/ c = Dot THEN NormComps(Tail(comps), acc, initial)
         ELSE IF c # DotDot \/ (initial = 0 /\ acc = <<>>)
                 \/ (acc # <<>> /\ acc[Len(acc)] = DotDot)
              THEN NormComps(Tail(comps), Append(acc, c), initial)
         ELSE IF acc # <<>>
              THEN NormComps(Tail(comps), SubSeq(acc, 1, Len(acc) - 1), initial)
         ELSE NormComps(Tail(comps), acc, initial)

\* "/".join(comps)
RECURSIVE JoinSep(_)
JoinSep(cs) ==
    IF cs = <<>> THEN <<>>
    ELSE IF Len(cs) = 1 THEN cs[1]
    ELSE cs[1] \o <<Sep>> \o JoinSep(Tail(cs))

\* os.path.normpath: POSIX keeps exactly two leading slashes.
NormPath(p) ==
    IF p = <<>> THEN Dot
    ELSE LET initial == IF ~StartsWith(p, <<Sep>>) THEN 0
                        ELSE IF StartsWith(p, <<Sep, Sep>>) /\ ~StartsWith(p, <<Sep, Sep, Sep>>)
                             THEN 2 ELSE 1
             body == JoinSep(NormComps(SplitOn(p, Sep), <<>>, initial))
             out == (IF initial = 2 THEN <<Sep, Sep>>
                     ELSE IF initial = 1 THEN <<Sep>> ELSE <<>>) \o body
         IN IF out = <<>> THEN Dot ELSE out

\* os.path.abspath, in working directory c
AbsPath(p, c) == NormPath(IF StartsWith(p, <<Sep>>) THEN p ELSE PathJoin(c, p))

\* (A normalisation that appends the separator without looking.)
NormalizeDirAlwaysAppend(d, c) == AbsPath(d, c) \o <<Sep>>
\* extdir = abspath(d); if not extdir.endswith(os.path.sep): extdir += os.path.sep
NormalizeDir(d, c) ==
    LET a == AbsPath(d, c) IN IF EndsWith(a, <<Sep>>) THEN a ELSE a \o <<Sep>>

\* extdir for the path get_ext_fullpath returned
ExtDir(full, c) == NormalizeDir(PathDirname(full), c)

\* The paths get_ext_fullpath may return: a directory part and a file name.
ExtPaths == { d \o <<"a">> : d \in BoundedSeq(PathChars, MaxPathLen) }

WorkDirs == { <<"/">>, <<"/", "a">> }

InitPath ==
    /\ fullpath \in ExtPaths
    /\ cwd \in WorkDirs
    /\ extdir = <<>>
    /\ extdir2 = <<>>
    /\ ppc = "start"

\* setup.py 23-27 for one extension
ResolveOutputDir ==
    /\ ppc = "start"
    /\ extdir' = ExtDir(fullpath, cwd)
    /\ ppc' = "normalised"
    /\ UNCHANGED <<fullpath, cwd, extdir2, reqVars, buildVars>>

\* setup.py 23, 26-27 applied to the directory they produced
Renormalize ==
    /\ ppc = "normalised"
    /\ extdir2' = NormalizeDir(extdir, cwd)
    /\ ppc' = "renormalised"
    /\ UNCHANGED <<fullpath, cwd, extdir, reqVars, buildVars>>

(***************************************************************************)
(* CMakeBuild.build_extension (setup.py 21-103) and ext_modules (106-113). *)
(***************************************************************************)
Digits == {"0", "1", "2", "3", "4", "5", "6", "7", "8", "9"}

DigitVal(c) ==
    CASE c = "0" -> 0 [] c = "1" -> 1 [] c = "2" -> 2 [] c = "3" -> 3 [] c = "4" -> 4
      [] c = "5" -> 5 [] c = "6" -> 6 [] c = "7" -> 7 [] c = "8" -> 8 [] c = "9" -> 9

RECURSIVE DecVal(_, _)
DecVal(s, acc) == IF s = <<>> THEN acc ELSE DecVal(Tail(s), 10 * acc + DigitVal(Head(s)))

\* int(s) for a str: surrounding whitespace, an optional sign, decimal digits;
\* anything else raises ValueError (ok = FALSE).
PyInt(s) ==
    LET t == Strip(s)
        signed == t # <<>> /\ Head(t) \in {"+", "-"}
        ds == IF signed THEN Tail(t) ELSE t
    IN IF ds # <<>> /\ \A k \in 1..Len(ds) : ds[k] \in Digits
       THEN [ok |-> TRUE,
             val |-> IF signed /\ Head(t) = "-" THEN 0 - DecVal(ds, 0) ELSE DecVal(ds, 0)]
       ELSE [ok |-> FALSE, val |-> 0]

\* int(os.environ.get(name, default))
EnvInt(e, name, default) ==
    IF e[name] = Unset THEN [ok |-> TRUE, val |-> default] ELSE PyInt(Val(e[name]))

EnvNames == {"DEBUG", "TESTING", "CMAKE_GENERATOR", "CMAKE_ARGS", "CMAKE_BUILD_PARALLEL_LEVEL"}

NinjaName == <<"N", "i", "n", "j", "a">>

\* The values the model gives each environment variable.
EnvValues(name) ==
    CASE name = "DEBUG" -> {Unset, Some(<<"0">>), Some(<<"1">>), Some(<<"t", "r", "u", "e">>)}
      [] name = "TESTING" -> {Unset, Some(<<"0">>), Some(<<"1">>), Some(<<>>)}
      [] name = "CMAKE_GENERATOR" ->
           {Unset, Some(<<>>), Some(NinjaName), Some(<<"n", "i", "n", "j", "a">>)}
      [] name = "CMAKE_ARGS" ->
           {Unset, Some(<<>>), Some(<<"p", " ", "q">>), Some(<<" ", "q", " ", " ", "p">>),
            Some(<<"p", "\t", "q">>)}
      [] name = "CMAKE_BUILD_PARALLEL_LEVEL" -> {Unset, Some(<<"8">>)}

\* One argument of a cmake command line: the option and its value, a string.
Arg(k, v) == [k |-> k, v |-> v]

\* A string the model does not look into.
Lit(s) == <<s>>

\* str(n) for n >= 0, as an f-string formats it
RECURSIVE IntToStr(_)
IntToStr(n) ==
    LET d == CHOOSE c \in Digits : DigitVal(c) = n % 10 IN
    IF n < 10 THEN <<d>> ELSE Append(IntToStr(n \div 10), d)

\* (A resolution that lets the DEBUG variable win over the caller's flag.)
EffectiveDebugEnvFirst(e, dbg) ==
    IF e["DEBUG"] # Unset THEN PyInt(Val(e["DEBUG"]))
    ELSE [ok |-> TRUE, val |-> IF dbg = None THEN 0 ELSE Val(dbg)]
\* debug = int(os.environ.get("DEBUG", 0)) if self.debug is None else self.debug
EffectiveDebug(e, dbg) ==
    IF dbg = None THEN EnvInt(e, "DEBUG", 0) ELSE [ok |-> TRUE, val |-> Val(dbg)]

\* cfg = "RelWithDebInfo" if debug else "Release"
BuildType(d) == IF d # 0 THEN "RelWithDebInfo" ELSE "Release"

\* testing_cfg = "ON" if testing else "OFF"
TestingCfg(t) == IF t # 0 THEN "ON" ELSE "OFF"

\* cmake_args as first assigned (setup.py 41-48)
BaseArgs(dir, cfg, testing_cfg) ==
    << Arg("CMAKE_CXX_STANDARD", <<"1", "7">>),
       Arg("CMAKE_LIBRARY_OUTPUT_DIRECTORY", dir),
       Arg("PYTHON_EXECUTABLE", Lit("sys.executable")),
       Arg("PYTHON_VERSION", Lit("sys.version_info")),
       Arg("CMAKE_BUILD_TYPE", Lit(cfg)),
       Arg("WITH_TESTING", Lit(testing_cfg)) >>

\* the devtoolset-7 toolchain, when installed (setup.py 52-59)
ToolchainArgs(dts) ==
    IF dts THEN << Arg("CMAKE_C_COMPILER", Lit("/opt/rh/devtoolset-7/root/bin/gcc")),
                   Arg("CMAKE_CXX_COMPILER", Lit("/opt/rh/devtoolset-7/root/bin/g++")),
                   Arg("CMAKE_CUDA_COMPILER", Lit("/usr/local/cuda-11.1/bin/nvcc")) >>
    ELSE <<>>

RECURSIVE TokenArgs(_)
TokenArgs(toks) ==
    IF toks = <<>> THEN <<>>
    ELSE <<Arg("token", Head(toks))>> \o TokenArgs(Tail(toks))

RECURSIVE NonEmpty(_)
NonEmpty(toks) ==
    IF toks = <<>> THEN <<>>
    ELSE (IF Head(toks) # <<>> THEN <<Head(toks)>> ELSE <<>>) \o NonEmpty(Tail(toks))

\* [item for item in os.environ["CMAKE_ARGS"].split(" ") if item] (setup.py 63-64)
ExtraArgs(e) ==
    IF e["CMAKE_ARGS"] # Unset
    THEN TokenArgs(NonEmpty(SplitOn(Val(e["CMAKE_ARGS"]), " "))) ELSE <<>>

\* setup.py 67
VersionArgs == << Arg("EXAMPLE_VERSION_INFO", Lit("version")) >>

\* cmake_generator = os.environ.get("CMAKE_GENERATOR", "")
CMakeGenerator(e) == IF e["CMAKE_GENERATOR"] = Unset THEN <<>> ELSE Val(e["CMAKE_GENERATOR"])

\* cmake_args += ["-GNinja", "-DCMAKE_MAKE_PROGRAM:FILEPATH=..."] (setup.py 79-82)
NinjaArgs == << Arg("G", NinjaName), Arg("CMAKE_MAKE_PROGRAM:FILEPATH", Lit("ninja.BIN_DIR/ninja")) >>

\* (A generator step that tries Ninja only when CMAKE_GENERATOR is unset or empty.)
GeneratorStepUnsetOnly(e, nj) ==
    IF CMakeGenerator(e) = <<>> /\ nj
    THEN [err |-> NoError, args |-> NinjaArgs]
    ELSE [err |-> NoError, args |-> <<>>]
\* The generator step (setup.py 74-84): the arguments it adds, and the exception
\* that leaves it ("None": an ImportError is caught and passed over).
GeneratorStep(e, nj) ==
    IF CMakeGenerator(e) = <<>> \/ CMakeGenerator(e) = NinjaName
    THEN IF nj
         THEN [err |-> NoError, args |-> NinjaArgs]
         ELSE [err |-> NoError, args |-> <<>>]
    ELSE [err |-> NoError, args |-> <<>>]

\* setup.py 99-101
PythonRootArgs == << Arg("Python_ROOT_DIR", Lit("dirname(dirname(sys.executable))")) >>

\* (Build arguments that take the job count whatever the environment pins.)
BuildArgsIgnoringEnv(e, target, par) ==
    << Arg("target", Lit(target)) >>
    \o (IF par # None /\ Val(par) # 0 THEN << Arg("j", IntToStr(Val(par))) >> ELSE <<>>)
\* build_args (setup.py 60, 88-93)
BuildArgs(e, target, par) ==
    << Arg("target", Lit(target)) >>
    \o (IF e["CMAKE_BUILD_PARALLEL_LEVEL"] = Unset /\ par # None /\ Val(par) # 0
        THEN << Arg("j", IntToStr(Val(par))) >> ELSE <<>>)

\* (An argument list that puts the CMAKE_ARGS tokens last.)
CMakeArgsExtraLast(e, dir, cfg, testing_cfg, dts, gen) ==
    BaseArgs(dir, cfg, testing_cfg) \o ToolchainArgs(dts) \o VersionArgs
    \o gen \o PythonRootArgs \o ExtraArgs(e)
\* cmake_args in the order the statements extend it (setup.py 41-101)
CMakeArgs(e, dir, cfg, testing_cfg, dts, gen) ==
    BaseArgs(dir, cfg, testing_cfg) \o ToolchainArgs(dts) \o ExtraArgs(e) \o VersionArgs
    \o gen \o PythonRootArgs

\* Lines 23-101 of build_extension for one extension: the two argument lists, or
\* the exception raised on the way.
Derive(e, dbg, par, nj, dts, full, c, ext) ==
    LET d == EffectiveDebug(e, dbg)
        t == EnvInt(e, "TESTING", 1)
        g == GeneratorStep(e, nj)
    IN IF ~d.ok \/ ~t.ok
       THEN [err |-> "ValueError", cmake_args |-> <<>>, build_args |-> <<>>]
       ELSE IF g.err # NoError
       THEN [err |-> g.err, cmake_args |-> <<>>, build_args |-> <<>>]
       ELSE [err |-> NoError,
             cmake_args |-> CMakeArgs(e, ExtDir(full, c), BuildType(d.val),
                                      TestingCfg(t.val), dts, g.args),
             build_args |-> BuildArgs(e, ext.target, par)]

\* CMakeExtension(name, target)
CMakeExtension(name, target) == [name |-> name, target |-> target]

\* ext_modules (setup.py 106-113), for testing = int(os.environ.get("TESTING", 1))
ExtModules(testing) ==
    << CMakeExtension("zhilight.C", "C") >>
    \o (IF testing # 0 THEN << CMakeExtension("zhilight.internals_", "internals_") >> ELSE <<>>)

(***************************************************************************)
(* CMakeBuild inherits run and build_extensions from build_ext (setup.py   *)
(* 21, 145).  build_extensions calls build_extension for each extension of *)
(* ext_modules: one after the other when self.parallel is None or 0, and   *)
(* from a pool of self.parallel threads, to which every call is submitted  *)
(* at once, when self.parallel is a job count.  An exception other than a  *)
(* compiler error leaves the run.                                          *)
(***************************************************************************)
\* An extension whose build_extension call is between its start and its end.
Active(ph) == { i \in DOMAIN ph : ph[i] \in {"Configuring", "Building"} }
Finished(ph) == { i \in DOMAIN ph : ph[i] \in {"Done", "Failed", "Error"} }

\* if self.parallel: _build_extensions_parallel() else: _build_extensions_serial()
IsParallel(par) == par # None /\ Val(par) # 0

ExceptionOf(p) == IF p = "Failed" THEN "CalledProcessError" ELSE "ValueError"

\* Where build_ext.run stands for the given phases.  The serial loop ends with
\* the first exception; the thread pool runs every submitted call to its end
\* and the first extension's exception, in list order, leaves the with block.
RunStatus(par, ph) ==
    LET bad == { i \in DOMAIN ph : ph[i] \in {"Failed", "Error"} }
        first == CHOOSE i \in bad : \A j \in bad : i <= j
    IN IF IsParallel(par)
       THEN IF Finished(ph) # DOMAIN ph THEN "build"
            ELSE IF bad = {} THEN "done" ELSE ExceptionOf(ph[first])
       ELSE IF bad # {} THEN ExceptionOf(ph[first])
            ELSE IF Finished(ph) = DOMAIN ph THEN "done" ELSE "build"

\* Whether the driver may start build_extension for extension i now.
MayStart(par, ph, i) ==
    /\ ph[i] = "NotStarted"
    /\ \A j \in 1..(i - 1) : ph[j] # "NotStarted"
    /\ IF IsParallel(par)
       THEN Cardinality(Active(ph)) < Val(par)
       ELSE \A j \in 1..(i - 1) : ph[j] = "Done"

\* (A call whose exit status is not checked.)
AfterCallUnchecked(st, next) == next
\* subprocess.check_call: a non-zero exit raises CalledProcessError
AfterCall(st, next) == IF st = 0 THEN next ELSE "Failed"

\* One check_call: its exit status is absent while the process runs.
Invocation(i, op, args) == [ext |-> i, op |-> op, args |-> args, exit |-> None]

SetExit(log, i, op, st) ==
    [k \in DOMAIN log |->
        IF log[k].ext = i /\ log[k].op = op /\ log[k].exit = None
        THEN [log[k] EXCEPT !.exit = Some(st)] ELSE log[k]]

\* get_ext_fullpath(ext.name) for build_lib "b" and the package zhilight
BuildFullPath == <<"b", "/", "z", "/", "C">>

InitBuild ==
    /\ env \in [EnvNames -> UNION {EnvValues(n) : n \in EnvNames}]
    /\ \A n \in EnvNames : env[n] \in EnvValues(n)
    /\ debug \in {None, Some(0), Some(1)}
    /\ parallel \in {None} \cup { Some(n) : n \in 0..MaxJobs }
    /\ ninja \in BOOLEAN
    /\ devtoolset \in BOOLEAN
    /\ pc = "load"
    /\ ext_modules = <<>>
    /\ phase = <<>>
    /\ invocations = <<>>

ExitStatuses == {0, 1}

\* The module level of setup.py up to setup(): ext_modules (106-113), then
\* setup() runs build_ext with cmdclass CMakeBuild (138-151).
LoadSetup ==
    /\ pc = "load"
    /\ LET t == EnvInt(env, "TESTING", 1) IN
         IF t.ok
         THEN /\ ext_modules' = ExtModules(t.val)
              /\ phase' = [i \in 1..Len(ExtModules(t.val)) |-> "NotStarted"]
              /\ pc' = "build"
         ELSE /\ pc' = "ValueError"
              /\ UNCHANGED <<ext_modules, phase>>
    /\ UNCHANGED <<env, debug, parallel, ninja, devtoolset, invocations, reqVars, pathVars>>

\* build_extension(ext) from its start to the configure call (setup.py 23-102)
StartExtension(i) ==
    /\ pc = "build"
    /\ i \in DOMAIN phase
    /\ MayStart(parallel, phase, i)
    /\ LET r == Derive(env, debug, parallel, ninja, devtoolset, fullpath, cwd, ext_modules[i]) IN
         IF r.err # NoError
         THEN /\ phase' = [phase EXCEPT ![i] = "Error"]
              /\ UNCHANGED invocations
         ELSE /\ phase' = [phase EXCEPT ![i] = "Configuring"]
              /\ invocations' = Append(invocations, Invocation(i, "configure", r.cmake_args))
    /\ pc' = RunStatus(parallel, phase')
    /\ UNCHANGED <<env, debug, parallel, ninja, devtoolset, ext_modules, reqVars, pathVars>>

\* The configure call exits; on status zero the build call is made (setup.py 102-103)
ConfigureExit(i, st) ==
    /\ pc = "build"
    /\ i \in DOMAIN phase
    /\ phase[i] = "Configuring"
    /\ LET r == Derive(env, debug, parallel, ninja, devtoolset, fullpath, cwd, ext_modules[i])
           nxt == AfterCall(st, "Building")
       IN /\ phase' = [phase EXCEPT ![i] = nxt]
          /\ invocations' =
               IF nxt = "Building"
               THEN Append(SetExit(invocations, i, "configure", st),
                           Invocation(i, "build", r.build_args))
               ELSE SetExit(invocations, i, "configure", st)
    /\ pc' = RunStatus(parallel, phase')
    /\ UNCHANGED <<env, debug, parallel, ninja, devtoolset, ext_modules, reqVars, pathVars>>

\* The build call exits (setup.py 103)
BuildExit(i, st) ==
    /\ pc = "build"
    /\ i \in DOMAIN phase
    /\ phase[i] = "Building"
    /\ phase' = [phase EXCEPT ![i] = AfterCall(st, "Done")]
    /\ invocations' = SetExit(invocations, i, "build", st)
    /\ pc' = RunStatus(parallel, phase')
    /\ UNCHANGED <<env, debug, parallel, ninja, devtoolset, ext_modules, reqVars, pathVars>>

(***************************************************************************)
(* Specifications.                                                         *)
(***************************************************************************)
IdleReq == files = [f \in FileNames |-> Missing] /\ stack = <<>> /\ status = "init" /\ result = <<>>

IdleBuild ==
    /\ env = [n \in EnvNames |-> Unset]
    /\ debug = None /\ parallel = None /\ ninja = FALSE /\ devtoolset = FALSE
    /\ pc = "load" /\ ext_modules = <<>> /\ phase = <<>> /\ invocations = <<>>

IdlePath ==
    /\ fullpath = BuildFullPath /\ cwd = <<"/", "a">>
    /\ extdir = <<>> /\ extdir2 = <<>> /\ ppc = "start"

\* get_requirements
InitR == InitReq /\ IdleBuild /\ IdlePath
NextReq == GetRequirements \/ Include \/ SkipOption \/ KeepLine \/ Return
SpecReq == InitR /\ [][NextReq]_vars

\* the output directory
InitP == InitPath /\ IdleReq /\ IdleBuild
NextPath == ResolveOutputDir \/ Renormalize
SpecPath == InitP /\ [][NextPath]_vars

\* build_ext over ext_modules
InitB ==
    /\ InitBuild /\ IdleReq
    /\ fullpath = BuildFullPath
    /\ cwd = <<"/", "a">> /\ extdir = <<>> /\ extdir2 = <<>> /\ ppc = "start"
NextBuild ==
    \/ LoadSetup
    \/ \E i \in 1..2 : StartExtension(i)
    \/ \E i \in 1..2, st \in ExitStatuses : ConfigureExit(i, st)
    \/ \E i \in 1..2, st \in ExitStatuses : BuildExit(i, st)
SpecBuild == InitB /\ [][NextBuild]_vars


\* get_requirements followed to its end: a sequential program takes its next step.
InitC == InitReqCycle /\ IdleBuild /\ IdlePath
FairSpecCycle == InitC /\ [][NextReq]_vars /\ WF_vars(NextReq)

(***************************************************************************)
(* Properties of get_requirements.                                         *)
(***************************************************************************)
Returned == status = "returned"

\* C3: whenever resolution returns, no element of the resolved list starts with
\* "-r" and none starts with "--", whatever the lines of the manifests are.
C3_NoDirectiveInResult ==
    Returned => \A k \in 1..Len(result) :
                   /\ ~StartsWith(result[k], <<"-", "r">>)
                   /\ ~StartsWith(result[k], <<"-", "-">>)

\* The marker of an element that stands for an expansion that does not exist.
Undefined == << <<"?">> >>

Fuel == Cardinality(FileNames) + 1

\* The depth-first expansion as the specification words it: every line trimmed,
\* "-r path" replaced by the expansion of path, "--" lines dropped, every other
\* non-empty line kept.
RECURSIVE TrimmedExpandLines(_, _)
TrimmedExpand(f, fuel) ==
    IF fuel = 0 \/ f \notin FileNames \/ files[f] = Missing THEN Undefined
    ELSE TrimmedExpandLines(SplitOn(Val(files[f]), "\n"), fuel)
TrimmedExpandLines(ls, fuel) ==
    IF ls = <<>> THEN <<>>
    ELSE LET t == Strip(Head(ls))
             rest == TrimmedExpandLines(Tail(ls), fuel)
         IN IF StartsWith(t, <<"-", "r", " ">>)
            THEN TrimmedExpand(Strip(SubSeq(t, 4, Len(t))), fuel - 1) \o rest
            ELSE IF StartsWith(t, <<"-", "-">>) THEN rest
            ELSE IF t # <<>> THEN <<t>> \o rest
            ELSE rest

\* C4 as stated: resolution yields the depth-first expansion of the trimmed lines.
C4_TrimmedExpansion == Returned => result = TrimmedExpand(RootManifest, Fuel)

\* The depth-first expansion of the lines as they stand once the content as a
\* whole is trimmed: blank lines and lines with whitespace around them are kept.
RECURSIVE VerbatimExpandLines(_, _)
VerbatimExpand(f, fuel) ==
    IF fuel = 0 \/ f \notin FileNames \/ files[f] = Missing THEN Undefined
    ELSE VerbatimExpandLines(SplitOn(Strip(Val(files[f])), "\n"), fuel)
VerbatimExpandLines(ls, fuel) ==
    IF ls = <<>> THEN <<>>
    ELSE LET l == Head(ls)
             rest == VerbatimExpandLines(Tail(ls), fuel)
         IN IF StartsWith(l, <<"-", "r", " ">>)
            THEN (IF Len(SplitWS(l)) >= 2 THEN VerbatimExpand(SplitWS(l)[2], fuel - 1)
                  ELSE Undefined) \o rest
            ELSE IF StartsWith(l, <<"-", "-">>) THEN rest
            ELSE <<l>> \o rest

\* C4 amended: resolution yields the depth-first expansion of the untrimmed lines.
C4_VerbatimExpansion == Returned => result = VerbatimExpand(RootManifest, Fuel)

\* A returned list that keeps a blank line of A and splices B's line after it.
C4_Witness ==
    /\ Returned
    /\ result = << <<"n">>, <<>>, <<"m">> >>

\* The manifests a manifest includes, as the reader follows them.
IncludedBy(f) ==
    IF f \notin FileNames \/ files[f] = Missing THEN {}
    ELSE LET ls == SplitOn(Strip(Val(files[f])), "\n") IN
         { SplitWS(ls[k])[2] : k \in { n \in 1..Len(ls) :
               StartsWith(ls[n], <<"-", "r", " ">>) /\ Len(SplitWS(ls[n])) >= 2 } }

RECURSIVE ReachFrom(_, _)
ReachFrom(S, n) ==
    IF n = 0 THEN S ELSE ReachFrom(S \cup UNION { IncludedBy(f) : f \in S }, n - 1)

\* The manifests reached from f in one or more inclusions.
Descendants(f) == ReachFrom(IncludedBy(f), Cardinality(FileNames))

\* The root manifest reaches a manifest that transitively includes itself.
Cyclic ==
    \E g \in ({RootManifest} \cup Descendants(RootManifest)) \cap FileNames :
        files[g] # Missing /\ g \in Descendants(g)

Terminated == status \notin {"init", "running"}

\* C10 as stated: resolving a manifest that transitively includes itself never
\* terminates (unless a missing file or a path-less include ends it first).
C10_CycleNeverTerminates ==
    (Cyclic /\ status \notin {"FileNotFoundError", "IndexError"}) => ~Terminated

\* C10 amended: a cyclic resolution never returns a list, an acyclic one never
\* reaches the recursion limit and nests no deeper than there are manifests, and
\* every resolution terminates.
C10_CycleEndsInRecursionError ==
    /\ [](/\ Returned => ~Cyclic
          /\ status = "RecursionError" => Cyclic
          /\ ~Cyclic => Len(stack) <= Cardinality(FileNames))
    /\ <>Terminated

\* A cyclic resolution stopped by the interpreter at full depth.
C10_Witness == Cyclic /\ status = "RecursionError" /\ Len(stack) = RecursionLimit

(***************************************************************************)
(* Properties of the output directory.                                     *)
(***************************************************************************)
\* C7 as stated: the output directory ends with exactly one separator, and
\* normalising it again leaves it unchanged.
C7_ExactlyOneTrailingSep ==
    /\ ppc # "start" => EndsWith(extdir, <<Sep>>) /\ ~EndsWith(extdir, <<Sep, Sep>>)
    /\ ppc = "renormalised" => extdir2 = extdir

\* The directory of the extension is written with exactly two leading slashes.
DoubleSlashRoot ==
    LET d == PathDirname(fullpath) IN
    StartsWith(d, <<Sep, Sep>>) /\ ~StartsWith(d, <<Sep, Sep, Sep>>)

\* C7 amended: the output directory ends with a separator, with exactly one
\* unless it is the double-slash root "//", and normalising it again leaves it
\* unchanged.
C7_OneTrailingSepButDoubleSlashRoot ==
    /\ ppc # "start" =>
         /\ EndsWith(extdir, <<Sep>>)
         /\ EndsWith(extdir, <<Sep, Sep>>) => (extdir = <<Sep, Sep>> /\ DoubleSlashRoot)
    /\ ppc = "renormalised" => extdir2 = extdir

\* A directory with several trailing separators, normalised twice.
C7_Witness ==
    /\ ppc = "renormalised"
    /\ PathDirname(fullpath) = <<Sep, Sep, Sep>>
    /\ extdir = <<Sep>>
    /\ extdir2 = extdir

(***************************************************************************)
(* Properties of build_extension and of the run over ext_modules.          *)
(***************************************************************************)
Calls(op) == { k \in DOMAIN invocations : invocations[k].op = op }
ArgsOf(k) == invocations[k].args
Has(args, kind) == \E a \in DOMAIN args : args[a].k = kind
ValuesOf(args, kind) == { args[a].v : a \in { x \in DOMAIN args : args[x].k = kind } }

IsToken(a) == a.k = "token"

RECURSIVE Values(_)
Values(args) == IF args = <<>> THEN <<>> ELSE <<Head(args).v>> \o Values(Tail(args))

\* The maximal runs of characters other than the space, in order.
RECURSIVE SpaceTokens(_, _)
SpaceTokens(s, cur) ==
    IF s = <<>> THEN (IF cur = <<>> THEN <<>> ELSE <<cur>>)
    ELSE IF Head(s) = " "
         THEN (IF cur = <<>> THEN <<>> ELSE <<cur>>) \o SpaceTokens(Tail(s), <<>>)
    ELSE SpaceTokens(Tail(s), Append(cur, Head(s)))

\* The tokens of CMAKE_ARGS, in order.
EnvTokens ==
    IF env["CMAKE_ARGS"] = Unset THEN <<>> ELSE SpaceTokens(Val(env["CMAKE_ARGS"]), <<>>)

\* C2 as stated: the tokens of CMAKE_ARGS are in the configure arguments, in
\* order, after every argument build_extension computes itself.
C2_TokensAfterAllComputedArgs ==
    \A k \in Calls("configure") :
        /\ Values(SelectSeq(ArgsOf(k), IsToken)) = EnvTokens
        /\ \A a, b \in DOMAIN ArgsOf(k) :
              (IsToken(ArgsOf(k)[a]) /\ ~IsToken(ArgsOf(k)[b])) => b < a

\* The arguments that precede the tokens: the first six and the toolchain.
LeadingKinds ==
    {"CMAKE_CXX_STANDARD", "CMAKE_LIBRARY_OUTPUT_DIRECTORY", "PYTHON_EXECUTABLE",
     "PYTHON_VERSION", "CMAKE_BUILD_TYPE", "WITH_TESTING",
     "CMAKE_C_COMPILER", "CMAKE_CXX_COMPILER", "CMAKE_CUDA_COMPILER"}

\* The arguments that follow them: version info, generator, python root.
TrailingKinds == {"EXAMPLE_VERSION_INFO", "G", "CMAKE_MAKE_PROGRAM:FILEPATH", "Python_ROOT_DIR"}

\* C2 amended: the tokens are in the configure arguments, in order, after the
\* build type, output directory, testing flag and toolchain arguments and before
\* the version info, generator and python root arguments.
C2_TokensBetweenToolchainAndVersion ==
    \A k \in Calls("configure") :
        /\ Values(SelectSeq(ArgsOf(k), IsToken)) = EnvTokens
        /\ \A a, b \in DOMAIN ArgsOf(k) :
              (IsToken(ArgsOf(k)[a]) /\ ~IsToken(ArgsOf(k)[b])) =>
                  /\ ArgsOf(k)[b].k \in LeadingKinds \cup TrailingKinds
                  /\ ArgsOf(k)[b].k \in LeadingKinds <=> b < a
                  /\ ArgsOf(k)[b].k \in TrailingKinds <=> a < b

\* A configure call with two tokens, the toolchain and the generator.
C2_Witness ==
    \E k \in Calls("configure") :
        /\ Len(EnvTokens) = 2
        /\ Has(ArgsOf(k), "token")
        /\ Has(ArgsOf(k), "G")
        /\ Has(ArgsOf(k), "CMAKE_C_COMPILER")

\* The DEBUG variable is set and not zero.
EnvDebugTrue == env["DEBUG"] # Unset /\ PyInt(Val(env["DEBUG"])).val # 0

\* The caller's flag when there is one, the DEBUG variable otherwise.
DebugFlag == IF debug # None THEN Val(debug) # 0 ELSE EnvDebugTrue

\* C5: the build type of a configure call is RelWithDebInfo exactly when the
\* effective debug flag is true, and Release otherwise.
C5_BuildTypeFollowsDebug ==
    \A k \in Calls("configure") :
        ValuesOf(ArgsOf(k), "CMAKE_BUILD_TYPE") =
            { IF DebugFlag THEN Lit("RelWithDebInfo") ELSE Lit("Release") }

\* The caller's flag overrides the environment, in both directions.
C5_Witness ==
    /\ Calls("configure") # {}
    /\ \/ debug = Some(0) /\ env["DEBUG"] = Some(<<"1">>)
       \/ debug = Some(1) /\ env["DEBUG"] = Some(<<"0">>)
    /\ env["TESTING"] = Some(<<"0">>)

\* The caller gave a job count: a positive integer.
JobCountGiven == parallel # None /\ Val(parallel) > 0

\* C6: a build call has a job-count flag exactly when CMAKE_BUILD_PARALLEL_LEVEL
\* is not set and the caller gave a job count, the flag then carries that count,
\* and no configure call has a job-count flag.
C6_JobFlagOnlyInBuild ==
    /\ \A k \in Calls("build") :
          /\ Has(ArgsOf(k), "j") <=>
                (env["CMAKE_BUILD_PARALLEL_LEVEL"] = Unset /\ JobCountGiven)
          /\ \A v \in ValuesOf(ArgsOf(k), "j") : PyInt(v) = [ok |-> TRUE, val |-> Val(parallel)]
    /\ \A k \in Calls("configure") : ~Has(ArgsOf(k), "j")

\* A build call that carries the caller's count of two jobs.
C6_Witness ==
    \E k \in Calls("build") :
        /\ parallel = Some(2)
        /\ ValuesOf(ArgsOf(k), "j") = { <<"2">> }

\* The generator is not overridden to another one.
NinjaWanted ==
    \/ env["CMAKE_GENERATOR"] = Unset
    \/ env["CMAKE_GENERATOR"] = Some(<<>>)
    \/ env["CMAKE_GENERATOR"] = Some(NinjaName)

\* DEBUG, where it is read, and TESTING are integers.
TogglesParse ==
    /\ debug = None /\ env["DEBUG"] # Unset => PyInt(Val(env["DEBUG"])).ok
    /\ env["TESTING"] # Unset => PyInt(Val(env["TESTING"])).ok

\* C8: a configure call has the generator flag and the generator's path exactly
\* when the override is unset, empty or Ninja and ninja is installed; otherwise
\* it has neither, and the generator step raises nothing: an extension whose
\* toggles parse reaches its configure call.
C8_GeneratorFallback ==
    /\ \A k \in Calls("configure") :
          /\ Has(ArgsOf(k), "G") <=> (NinjaWanted /\ ninja)
          /\ Has(ArgsOf(k), "CMAKE_MAKE_PROGRAM:FILEPATH") <=> (NinjaWanted /\ ninja)
          /\ ValuesOf(ArgsOf(k), "G") \subseteq {NinjaName}
    /\ \A i \in DOMAIN phase : phase[i] = "Error" => ~TogglesParse

\* Ninja is wanted and not installed, and the configure call is made without it.
C8_Witness ==
    \E k \in Calls("configure") :
        /\ env["CMAKE_GENERATOR"] = Some(NinjaName)
        /\ ~ninja
        /\ ~Has(ArgsOf(k), "G")

\* C9: deriving the arguments never fails by itself, whatever the environment
\* holds: the only error of a run is a non-zero exit of cmake.
C9_DerivationNeverFails ==
    /\ pc # "ValueError"
    /\ \A i \in DOMAIN phase : phase[i] # "Error"

ExitOf(k) == invocations[k].exit
FailedCall(k) == ExitOf(k) # None /\ Val(ExitOf(k)) # 0
AnyFailed == \E k \in DOMAIN invocations : FailedCall(k)

\* A build call follows a configure call of its extension that exited with zero,
\* and each phase is called at most once per extension.
PhasesInOrder ==
    /\ \A k \in Calls("build") :
          \E j \in 1..(k - 1) :
              /\ invocations[j].op = "configure"
              /\ invocations[j].ext = invocations[k].ext
              /\ ExitOf(j) = Some(0)
    /\ \A j, k \in DOMAIN invocations :
          (invocations[j].ext = invocations[k].ext /\ invocations[j].op = invocations[k].op)
              => j = k

NoNewCall == invocations' = invocations \/ Len(invocations') = Len(invocations)

====
